---- MODULE Spec2Model ----
(***************************************************************************)
(* SACRM 3.0 rating engine (src/app.py): the SACRMEngine calculators, the  *)
(* composite combiner, the grade classifier, the PD estimator and the      *)
(* upload-and-rate handler of the Streamlit page.                          *)
(*                                                                         *)
(* Numbers.  The code computes in binary doubles; the model computes the   *)
(* same quantities exactly, in decimal fixed point:                        *)
(*   crs, fss, ocbs, brs   whole points                                    *)
(*   sss                   units of 10^-5 point (SSS_UNIT per point)       *)
(*   composite, score      tenths of a point                               *)
(*   stored sss            tenths of a point                               *)
(*   pd_1y, pd_3y          hundredths of a percent                         *)
(*   PD curve              units of 10^-6 percent                          *)
(* Ratios are kept as numerator/denominator pairs and compared with their  *)
(* thresholds by cross-multiplication.  For integer amounts of the sizes   *)
(* used here the double results fall on the same side of every threshold.  *)
(* round(x, n) is round-half-even on the exact value; only at an exact     *)
(* decimal tie (x.x5 for n = 1) can the double computation land on the     *)
(* other neighbour, and the properties about rounding below accept either  *)
(* neighbour at a tie.                                                     *)
(***************************************************************************)
EXTENDS Integers, Sequences, FiniteSets, TLC

VARIABLES
    country_risk,      \* SACRMEngine.COUNTRY_RISK (class attribute, a dict)
    sector_risk,       \* SACRMEngine.SECTOR_RISK  (class attribute, a dict)
    uploaded_file,     \* the file_uploader widget: NoFile, Unreadable or a frame
    selected_company,  \* the selectbox widget
    results,           \* st.session_state.results
    error_shown,       \* st.error(...) rendered by the last script run
    last_event,        \* what the last script run was triggered by
    requests,          \* clicks of the rating button so far
    arg,               \* argument of a direct engine call
    ret                \* its return value

vars == <<country_risk, sector_risk, uploaded_file, selected_company,
          results, error_shown, last_event, requests, arg, ret>>

----------------------------------------------------------------------------
(* Bounds of the explored input space *)

MaxAmount == 7     \* total_debt_usd, ebitda_usd range over 0..MaxAmount
MaxFlow == 2       \* cash, operating cashflow, interest expense: 0..MaxFlow
MaxNegative == 2   \* amounts of a numeric input go down to -MaxNegative
MaxDelay == 91     \* payment_delays_days ranges over 0..MaxDelay
MaxBelow == 30     \* scores go down to -MaxBelow tenths
MaxAbove == 300    \* scores go up to 1000 + MaxAbove tenths
MaxRows == 2       \* rows of an uploaded file
MaxDropped == 1    \* columns removed from an uploaded file
MaxRequests == 2   \* clicks of the rating button

----------------------------------------------------------------------------
(* Helpers *)

Max(a, b) == IF a >= b THEN a ELSE b
Min(a, b) == IF a <= b THEN a ELSE b
Abs(a) == IF a >= 0 THEN a ELSE -a

\* round-half-even of n/d, d > 0 (Python's round on the exact value)
RoundDiv(n, d) ==
    LET q == n \div d
        r == n % d
    IN  IF 2 * r > d \/ (2 * r = d /\ q % 2 = 1) THEN q + 1 ELSE q

\* str.lower() on a text held as a sequence of one-character strings
UPPER_TO_LOWER ==
    [c \in {"A","B","C","D","E","F","G","H","I","J","K","L","M",
            "N","O","P","Q","R","S","T","U","V","W","X","Y","Z"} |->
       CASE c = "A" -> "a" [] c = "B" -> "b" [] c = "C" -> "c" [] c = "D" -> "d"
         [] c = "E" -> "e" [] c = "F" -> "f" [] c = "G" -> "g" [] c = "H" -> "h"
         [] c = "I" -> "i" [] c = "J" -> "j" [] c = "K" -> "k" [] c = "L" -> "l"
         [] c = "M" -> "m" [] c = "N" -> "n" [] c = "O" -> "o" [] c = "P" -> "p"
         [] c = "Q" -> "q" [] c = "R" -> "r" [] c = "S" -> "s" [] c = "T" -> "t"
         [] c = "U" -> "u" [] c = "V" -> "v" [] c = "W" -> "w" [] c = "X" -> "x"
         [] c = "Y" -> "y" [] c = "Z" -> "z"]

Lower(text) ==
    [i \in 1..Len(text) |->
        IF text[i] \in DOMAIN UPPER_TO_LOWER THEN UPPER_TO_LOWER[text[i]]
                                             ELSE text[i]]

\* a cell of a text column that pandas read as a float (an empty cell): it
\* has no .lower()
NOT_TEXT == <<"float('nan')">>

----------------------------------------------------------------------------
(* Reference tables, src/app.py:50-76 *)

COUNTRY_RISK ==
    [c \in {"Kenya", "Ghana", "Nigeria", "Rwanda", "South Africa", "Egypt",
            "Morocco", "Namibia", "Botswana", "Mauritius"} |->
       CASE c = "Kenya" -> 78        [] c = "Ghana" -> 72
         [] c = "Nigeria" -> 70      [] c = "Rwanda" -> 82
         [] c = "South Africa" -> 75 [] c = "Egypt" -> 68
         [] c = "Morocco" -> 80      [] c = "Namibia" -> 76
         [] c = "Botswana" -> 85     [] c = "Mauritius" -> 88]

SECTOR_RISK ==
    [s \in {"Banking", "Telecom", "Manufacturing", "Agriculture", "Energy",
            "Mining", "Retail", "Technology", "Logistics", "Real Estate"} |->
       CASE s = "Banking" -> 75       [] s = "Telecom" -> 82
         [] s = "Manufacturing" -> 70 [] s = "Agriculture" -> 65
         [] s = "Energy" -> 72        [] s = "Mining" -> 68
         [] s = "Retail" -> 73        [] s = "Technology" -> 78
         [] s = "Logistics" -> 74     [] s = "Real Estate" -> 69]

----------------------------------------------------------------------------
(* Sub-score calculators, src/app.py:78-195 *)

\* calculate_crs answering an unknown country with a "not found" sentinel
calculate_crs_sentinel(country) ==
    IF country \in DOMAIN country_risk THEN country_risk[country] ELSE -1

\* calculate_crs looking the country up after trimming it and folding its
\* letter case
calculate_crs_folded(country) ==
    LET key == IF country \in {"kenya", "KENYA", "Kenya "} THEN "Kenya"
               ELSE country
    IN  IF key \in DOMAIN country_risk THEN country_risk[key] ELSE 70

\* dict.get(country, 70) on the class attribute
calculate_crs(country) ==
    IF country \in DOMAIN country_risk THEN country_risk[country] ELSE 70

\* fss_ratios dividing by total_debt_usd itself, without max(..., 1)
fss_ratios_unguarded(data) ==
    [debt_to_ebitda    |-> [num |-> data.total_debt_usd,
                            den |-> Max(data.ebitda_usd, 1)],
     interest_coverage |-> [num |-> data.ebitda_usd,
                            den |-> Max(data.interest_expense_usd, 1)],
     ocf_to_debt       |-> [num |-> data.operating_cashflow_usd,
                            den |-> data.total_debt_usd],
     liquidity         |-> [num |-> 5 * data.cash_usd,
                            den |-> data.total_debt_usd]]

\* The four ratios of calculate_fss as numerator / denominator.  The code's
\* denominators are max(ebitda,1), max(interest,1), max(debt,1) and
\* max(debt*0.2,1); the last is held in fifths of a unit (scale 5), so that
\* liquidity = 5*cash / max(debt,5).
fss_ratios(data) ==
    [debt_to_ebitda    |-> [num |-> data.total_debt_usd,
                            den |-> Max(data.ebitda_usd, 1)],
     interest_coverage |-> [num |-> data.ebitda_usd,
                            den |-> Max(data.interest_expense_usd, 1)],
     ocf_to_debt       |-> [num |-> data.operating_cashflow_usd,
                            den |-> Max(data.total_debt_usd, 1)],
     liquidity         |-> [num |-> 5 * data.cash_usd,
                            den |-> Max(data.total_debt_usd, 5)]]

\* r < a/b and r > a/b for a ratio r with a positive denominator
RatioLess(r, a, b) == r.num * b < a * r.den
RatioGreater(r, a, b) == r.num * b > a * r.den

\* fss_bonuses with the liquidity tiers tested by >= instead of >
fss_bonuses_inclusive(data) ==
    LET r == fss_ratios(data)
    IN  [debt_to_ebitda |->
            IF RatioLess(r.debt_to_ebitda, 2, 1) THEN 15
            ELSE IF RatioLess(r.debt_to_ebitda, 3, 1) THEN 10
            ELSE IF RatioLess(r.debt_to_ebitda, 4, 1) THEN 5 ELSE 0,
         interest_coverage |->
            IF RatioGreater(r.interest_coverage, 5, 1) THEN 15
            ELSE IF RatioGreater(r.interest_coverage, 3, 1) THEN 10
            ELSE IF RatioGreater(r.interest_coverage, 2, 1) THEN 5 ELSE 0,
         ocf_to_debt |->
            IF RatioGreater(r.ocf_to_debt, 3, 10) THEN 10
            ELSE IF RatioGreater(r.ocf_to_debt, 2, 10) THEN 6
            ELSE IF RatioGreater(r.ocf_to_debt, 1, 10) THEN 3 ELSE 0,
         liquidity |->
            IF ~RatioLess(r.liquidity, 15, 10) THEN 10
            ELSE IF ~RatioLess(r.liquidity, 10, 10) THEN 6
            ELSE IF ~RatioLess(r.liquidity, 5, 10) THEN 3 ELSE 0]

\* fss_bonuses with a further tier that penalises a negative cash flow
fss_bonuses_penalised(data) ==
    LET r == fss_ratios(data)
    IN  [debt_to_ebitda |->
            IF RatioLess(r.debt_to_ebitda, 2, 1) THEN 15
            ELSE IF RatioLess(r.debt_to_ebitda, 3, 1) THEN 10
            ELSE IF RatioLess(r.debt_to_ebitda, 4, 1) THEN 5 ELSE 0,
         interest_coverage |->
            IF RatioGreater(r.interest_coverage, 5, 1) THEN 15
            ELSE IF RatioGreater(r.interest_coverage, 3, 1) THEN 10
            ELSE IF RatioGreater(r.interest_coverage, 2, 1) THEN 5 ELSE 0,
         ocf_to_debt |->
            IF RatioGreater(r.ocf_to_debt, 3, 10) THEN 10
            ELSE IF RatioGreater(r.ocf_to_debt, 2, 10) THEN 6
            ELSE IF RatioGreater(r.ocf_to_debt, 1, 10) THEN 3
            ELSE IF RatioLess(r.ocf_to_debt, 0, 1) THEN -10 ELSE 0,
         liquidity |->
            IF RatioGreater(r.liquidity, 15, 10) THEN 10
            ELSE IF RatioGreater(r.liquidity, 10, 10) THEN 6
            ELSE IF RatioGreater(r.liquidity, 5, 10) THEN 3 ELSE 0]

\* the four if/elif chains of calculate_fss, src/app.py:96-126: what each
\* ratio adds to the score
fss_bonuses(data) ==
    LET r == fss_ratios(data)
    IN  [debt_to_ebitda |->
            IF RatioLess(r.debt_to_ebitda, 2, 1) THEN 15
            ELSE IF RatioLess(r.debt_to_ebitda, 3, 1) THEN 10
            ELSE IF RatioLess(r.debt_to_ebitda, 4, 1) THEN 5 ELSE 0,
         interest_coverage |->
            IF RatioGreater(r.interest_coverage, 5, 1) THEN 15
            ELSE IF RatioGreater(r.interest_coverage, 3, 1) THEN 10
            ELSE IF RatioGreater(r.interest_coverage, 2, 1) THEN 5 ELSE 0,
         ocf_to_debt |->
            IF RatioGreater(r.ocf_to_debt, 3, 10) THEN 10
            ELSE IF RatioGreater(r.ocf_to_debt, 2, 10) THEN 6
            ELSE IF RatioGreater(r.ocf_to_debt, 1, 10) THEN 3 ELSE 0,
         liquidity |->
            IF RatioGreater(r.liquidity, 15, 10) THEN 10
            ELSE IF RatioGreater(r.liquidity, 10, 10) THEN 6
            ELSE IF RatioGreater(r.liquidity, 5, 10) THEN 3 ELSE 0]

\* the score before min(score, 100): the base 50 and the four bonuses
fss_score(data) ==
    LET b == fss_bonuses(data)
    IN  50 + b.debt_to_ebitda + b.interest_coverage + b.ocf_to_debt
           + b.liquidity

calculate_fss(data) == Min(fss_score(data), 100)

\* calculate_ocbs comparing the text with 'yes' without .lower()
calculate_ocbs_case_sensitive(data) ==
    LET restructuring ==
            IF data.has_bank_restructuring = <<"y", "e", "s">>
            THEN -15 ELSE 0
        delays ==
            IF data.payment_delays_days < 30 THEN 10
            ELSE IF data.payment_delays_days < 60 THEN 5
            ELSE IF data.payment_delays_days > 90 THEN -15
            ELSE IF data.payment_delays_days > 60 THEN -10 ELSE 0
        score == 80 + restructuring + delays
    IN  Max(Min(score, 100), 0)

calculate_ocbs(data) ==
    LET restructuring ==
            IF Lower(data.has_bank_restructuring) = <<"y", "e", "s">>
            THEN -15 ELSE 0
        delays ==
            IF data.payment_delays_days < 30 THEN 10
            ELSE IF data.payment_delays_days < 60 THEN 5
            ELSE IF data.payment_delays_days > 90 THEN -15
            ELSE IF data.payment_delays_days > 60 THEN -10 ELSE 0
        score == 80 + restructuring + delays
    IN  Max(Min(score, 100), 0)

calculate_brs(data) ==
    LET mobile ==
            IF data.mobile_money_share > 60 THEN 15
            ELSE IF data.mobile_money_share > 40 THEN 10
            ELSE IF data.mobile_money_share > 20 THEN 5 ELSE 0
        audited ==
            IF Lower(data.audited_financials) = <<"y", "e", "s">>
            THEN 10 ELSE -10
        fx ==
            IF data.fx_debt_percentage < 30 THEN 5
            ELSE IF data.fx_debt_percentage > 60 THEN -10 ELSE 0
        score == 70 + mobile + audited + fx
    IN  Max(Min(score, 100), 0)

SSS_UNIT == 100000

\* liquidity_ratio of calculate_sss: cash / max(debt*0.2, 1), scale 5
sss_ratio(data) ==
    [num |-> 5 * data.cash_usd, den |-> Max(data.total_debt_usd, 5)]

\* fss*0.85*(1 - fx/100*0.3) = fss*85*(1000 - 3*fx) / 10^5
calculate_sss(data, fss) ==
    LET stressed == fss * 85 * (1000 - 3 * data.fx_debt_percentage)
        r == sss_ratio(data)
        buffer ==
            IF RatioGreater(r, 12, 10) THEN 5 * SSS_UNIT
            ELSE IF RatioLess(r, 8, 10) THEN -5 * SSS_UNIT ELSE 0
        score == stressed + buffer
    IN  Max(Min(score, 100 * SSS_UNIT), 0)

----------------------------------------------------------------------------
(* Composite, grade, src/app.py:197-248 *)

\* the weights dict with the first two weights exchanged
weights_exchanged ==
    [crs |-> 25, fss |-> 30, ocbs |-> 20, brs |-> 15, sss |-> 10]

\* the weights dict, in hundredths
weights == [crs |-> 30, fss |-> 25, ocbs |-> 20, brs |-> 15, sss |-> 10]

\* the weighted sum in units of 10^-7 point, then round(composite, 1)
calculate_composite(crs, fss, ocbs, brs, sss) ==
    LET composite == crs * weights.crs * SSS_UNIT
                   + fss * weights.fss * SSS_UNIT
                   + ocbs * weights.ocbs * SSS_UNIT
                   + brs * weights.brs * SSS_UNIT
                   + sss * weights.sss
    IN  RoundDiv(composite, 10 * SSS_UNIT)

\* get_rating_grade testing the AA threshold with > instead of >=
get_rating_grade_strict(score) ==
    IF score >= 900 THEN "AAA"
    ELSE IF score > 850 THEN "AA"
    ELSE IF score >= 800 THEN "A+"
    ELSE IF score >= 750 THEN "A"
    ELSE IF score >= 720 THEN "A-"
    ELSE IF score >= 700 THEN "BBB+"
    ELSE IF score >= 680 THEN "BBB"
    ELSE IF score >= 650 THEN "BBB-"
    ELSE IF score >= 620 THEN "BB+"
    ELSE IF score >= 600 THEN "BB"
    ELSE IF score >= 550 THEN "BB-"
    ELSE IF score >= 500 THEN "B+"
    ELSE IF score >= 450 THEN "B"
    ELSE "B-"

\* get_rating_grade with the labels of the A- and BBB+ branches exchanged
get_rating_grade_swapped(score) ==
    IF score >= 900 THEN "AAA"
    ELSE IF score >= 850 THEN "AA"
    ELSE IF score >= 800 THEN "A+"
    ELSE IF score >= 750 THEN "A"
    ELSE IF score >= 720 THEN "BBB+"
    ELSE IF score >= 700 THEN "A-"
    ELSE IF score >= 680 THEN "BBB"
    ELSE IF score >= 650 THEN "BBB-"
    ELSE IF score >= 620 THEN "BB+"
    ELSE IF score >= 600 THEN "BB"
    ELSE IF score >= 550 THEN "BB-"
    ELSE IF score >= 500 THEN "B+"
    ELSE IF score >= 450 THEN "B"
    ELSE "B-"

\* score in tenths of a point
get_rating_grade(score) ==
    IF score >= 900 THEN "AAA"
    ELSE IF score >= 850 THEN "AA"
    ELSE IF score >= 800 THEN "A+"
    ELSE IF score >= 750 THEN "A"
    ELSE IF score >= 720 THEN "A-"
    ELSE IF score >= 700 THEN "BBB+"
    ELSE IF score >= 680 THEN "BBB"
    ELSE IF score >= 650 THEN "BBB-"
    ELSE IF score >= 620 THEN "BB+"
    ELSE IF score >= 600 THEN "BB"
    ELSE IF score >= 550 THEN "BB-"
    ELSE IF score >= 500 THEN "B+"
    ELSE IF score >= 450 THEN "B"
    ELSE "B-"

----------------------------------------------------------------------------
(* PD estimator, src/app.py:250-256 *)

\* 50 * exp(-0.05 * score) in units of 10^-6 percent, rounded to nearest,
\* tabulated for score = -4.0, -3.9, ..., 131.0 (entry k + 41 for a score of
\* k tenths).  On this range the exact values and their 2.3-folds stay
\* more than 1.3 * 10^-6 away from every two-decimal rounding boundary, so
\* the tabulated values round as the doubles of the code do.
PD_CURVE == <<
    61070138, 60765549, 60462480, 60160922, 59860868, 59562311, 59265243, 58969656,
    58675544, 58382898, 58091712, 57801979, 57513690, 57226839, 56941419, 56657423,
    56374843, 56093672, 55813904, 55535531, 55258546, 54982943, 54708714, 54435853,
    54164353, 53894208, 53625409, 53357951, 53091827, 52827031, 52563555, 52301393,
    52040539, 51780985, 51522727, 51265756, 51010067, 50755653, 50502508, 50250626,
    50000000, 49750624, 49502492, 49255597, 49009934, 48765496, 48522277, 48280271,
    48039472, 47799874, 47561471, 47324257, 47088227, 46853373, 46619691, 46387174,
    46155817, 45925614, 45696559, 45468647, 45241871, 45016226, 44791707, 44568307,
    44346022, 44124845, 43904772, 43685796, 43467912, 43251115, 43035399, 42820759,
    42607189, 42394685, 42183241, 41972851, 41763511, 41555214, 41347957, 41141733,
    40936538, 40732366, 40529212, 40327072, 40125940, 39925811, 39726680, 39528542,
    39331393, 39135227, 38940039, 38745825, 38552579, 38360297, 38168975, 37978606,
    37789187, 37600713, 37413178, 37226579, 37040911, 36856169, 36672348, 36489444,
    36307452, 36126368, 35946187, 35766904, 35588516, 35411018, 35234404, 35058672,
    34883816, 34709833, 34536717, 34364464, 34193070, 34022532, 33852844, 33684002,
    33516002, 33348841, 33182513, 33017014, 32852341, 32688489, 32525455, 32363233,
    32201821, 32041214, 31881408, 31722398, 31564182, 31406755, 31250113, 31094253,
    30939170, 30784860, 30631320, 30478545, 30326533, 30175279, 30024779, 29875030,
    29726027, 29577768, 29430248, 29283465, 29137413, 28992089, 28847491, 28703613,
    28560453, 28418007, 28276272, 28135243, 27994918, 27855293, 27716364, 27578128,
    27440582, 27303721, 27167543, 27032045, 26897222, 26763071, 26629590, 26496774,
    26364621, 26233127, 26102289, 25972103, 25842567, 25713676, 25585429, 25457821,
    25330850, 25204511, 25078803, 24953722, 24829265, 24705429, 24582210, 24459606,
    24337613, 24216228, 24095450, 23975273, 23855696, 23736715, 23618328, 23500531,
    23383321, 23266697, 23150653, 23035189, 22920301, 22805985, 22692240, 22579062,
    22466448, 22354396, 22242903, 22131966, 22021583, 21911750, 21802464, 21693724,
    21585526, 21477868, 21370747, 21264160, 21158104, 21052578, 20947577, 20843101,
    20739146, 20635709, 20532788, 20430380, 20328483, 20227094, 20126211, 20025831,
    19925952, 19826571, 19727686, 19629293, 19531392, 19433979, 19337051, 19240607,
    19144644, 19049160, 18954152, 18859618, 18765555, 18671961, 18578835, 18486172,
    18393972, 18302232, 18210949, 18120121, 18029747, 17939823, 17850348, 17761319,
    17672734, 17584591, 17496887, 17409621, 17322791, 17236393, 17150426, 17064888,
    16979776, 16895089, 16810825, 16726980, 16643554, 16560544, 16477948, 16395764,
    16313990, 16232623, 16151663, 16071106, 15990951, 15911196, 15831838, 15752877,
    15674309, 15596133, 15518347, 15440949, 15363937, 15287309, 15211063, 15135198,
    15059711, 14984600, 14909864, 14835501, 14761508, 14687885, 14614629, 14541738,
    14469211, 14397045, 14325240, 14253792, 14182701, 14111965, 14041581, 13971548,
    13901865, 13832529, 13763539, 13694893, 13626590, 13558627, 13491003, 13423716,
    13356765, 13290148, 13223863, 13157909, 13092283, 13026985, 12962013, 12897365,
    12833039, 12769034, 12705348, 12641980, 12578928, 12516190, 12453765, 12391652,
    12329848, 12268353, 12207164, 12146281, 12085701, 12025423, 11965446, 11905768,
    11846388, 11787304, 11728514, 11670018, 11611814, 11553900, 11496274, 11438936,
    11381884, 11325117, 11268633, 11212430, 11156508, 11100865, 11045499, 10990409,
    10935594, 10881053, 10826783, 10772785, 10719055, 10665594, 10612399, 10559469,
    10506804, 10454401, 10402259, 10350378, 10298755, 10247390, 10196281, 10145426,
    10094826, 10044478, 9994381, 9944534, 9894935, 9845584, 9796479, 9747619,
    9699002, 9650628, 9602495, 9554603, 9506949, 9459533, 9412353, 9365409,
    9318699, 9272222, 9225976, 9179961, 9134176, 9088619, 9043290, 8998186,
    8953307, 8908653, 8864220, 8820010, 8776020, 8732249, 8688697, 8645362,
    8602243, 8559339, 8516649, 8474172, 8431907, 8389853, 8348008, 8306373,
    8264944, 8223723, 8182707, 8141895, 8101288, 8060882, 8020678, 7980675,
    7940871, 7901266, 7861858, 7822647, 7783632, 7744810, 7706183, 7667748,
    7629505, 7591453, 7553590, 7515917, 7478431, 7441132, 7404019, 7367092,
    7330348, 7293788, 7257410, 7221213, 7185197, 7149361, 7113704, 7078224,
    7042921, 7007794, 6972843, 6938066, 6903462, 6869031, 6834771, 6800683,
    6766764, 6733015, 6699434, 6666020, 6632773, 6599692, 6566776, 6534024,
    6501436, 6469009, 6436745, 6404642, 6372698, 6340915, 6309289, 6277821,
    6246511, 6215356, 6184357, 6153512, 6122821, 6092284, 6061898, 6031664,
    6001581, 5971648, 5941865, 5912230, 5882742, 5853402, 5824208, 5795160,
    5766256, 5737497, 5708881, 5680408, 5652077, 5623887, 5595837, 5567928,
    5540158, 5512526, 5485032, 5457676, 5430455, 5403371, 5376422, 5349606,
    5322925, 5296377, 5269961, 5243677, 5217524, 5191502, 5165609, 5139845,
    5114210, 5088703, 5063323, 5038070, 5012942, 4987940, 4963063, 4938309,
    4913679, 4889172, 4864787, 4840524, 4816382, 4792360, 4768458, 4744675,
    4721011, 4697465, 4674036, 4650724, 4627529, 4604449, 4581484, 4558634,
    4535898, 4513275, 4490765, 4468367, 4446081, 4423906, 4401842, 4379887,
    4358043, 4336307, 4314679, 4293160, 4271748, 4250442, 4229243, 4208150,
    4187161, 4166278, 4145498, 4124823, 4104250, 4083780, 4063412, 4043146,
    4022980, 4002916, 3982951, 3963086, 3943320, 3923653, 3904083, 3884612,
    3865237, 3845959, 3826777, 3807691, 3788700, 3769804, 3751002, 3732294,
    3713679, 3695157, 3676727, 3658389, 3640143, 3621988, 3603923, 3585948,
    3568063, 3550268, 3532561, 3514942, 3497411, 3479968, 3462611, 3445341,
    3428158, 3411060, 3394047, 3377119, 3360276, 3343516, 3326840, 3310248,
    3293738, 3277310, 3260964, 3244700, 3228517, 3212415, 3196393, 3180451,
    3164588, 3148805, 3133100, 3117474, 3101925, 3086454, 3071061, 3055744,
    3040503, 3025339, 3010250, 2995236, 2980297, 2965433, 2950643, 2935926,
    2921283, 2906713, 2892216, 2877791, 2863438, 2849157, 2834946, 2820807,
    2806738, 2792739, 2778811, 2764951, 2751161, 2737440, 2723786, 2710202,
    2696684, 2683235, 2669852, 2656536, 2643286, 2630103, 2616985, 2603933,
    2590946, 2578023, 2565166, 2552372, 2539642, 2526975, 2514372, 2501831,
    2489353, 2476938, 2464584, 2452292, 2440061, 2427891, 2415782, 2403733,
    2391744, 2379816, 2367946, 2356136, 2344385, 2332692, 2321058, 2309481,
    2297963, 2286502, 2275098, 2263751, 2252460, 2241226, 2230048, 2218925,
    2207858, 2196847, 2185890, 2174988, 2164140, 2153346, 2142606, 2131920,
    2121287, 2110707, 2100180, 2089705, 2079283, 2068912, 2058594, 2048326,
    2038110, 2027945, 2017831, 2007767, 1997753, 1987789, 1977875, 1968010,
    1958195, 1948428, 1938710, 1929041, 1919420, 1909847, 1900321, 1890843,
    1881413, 1872029, 1862692, 1853402, 1844158, 1834961, 1825809, 1816702,
    1807642, 1798626, 1789655, 1780729, 1771848, 1763011, 1754218, 1745469,
    1736763, 1728101, 1719482, 1710906, 1702373, 1693882, 1685434, 1677028,
    1668663, 1660341, 1652060, 1643820, 1635622, 1627464, 1619347, 1611271,
    1603234, 1595238, 1587282, 1579365, 1571488, 1563650, 1555852, 1548092,
    1540371, 1532688, 1525044, 1517437, 1509869, 1502339, 1494846, 1487390,
    1479972, 1472590, 1465246, 1457938, 1450666, 1443431, 1436232, 1429069,
    1421941, 1414849, 1407793, 1400771, 1393785, 1386833, 1379917, 1373034,
    1366186, 1359372, 1352592, 1345846, 1339134, 1332455, 1325809, 1319197,
    1312617, 1306070, 1299556, 1293075, 1286626, 1280209, 1273823, 1267470,
    1261149, 1254859, 1248600, 1242373, 1236176, 1230011, 1223876, 1217772,
    1211698, 1205655, 1199642, 1193659, 1187705, 1181781, 1175887, 1170023,
    1164187, 1158381, 1152603, 1146855, 1141135, 1135443, 1129780, 1124145,
    1118539, 1112960, 1107409, 1101886, 1096390, 1090922, 1085481, 1080067,
    1074680, 1069320, 1063987, 1058680, 1053400, 1048146, 1042918, 1037717,
    1032541, 1027391, 1022267, 1017169, 1012096, 1007048, 1002025, 997027,
    992055, 987107, 982184, 977285, 972411, 967561, 962735, 957933,
    953156, 948402, 943672, 938965, 934282, 929622, 924986, 920372,
    915782, 911214, 906670, 902148, 897648, 893171, 888716, 884284,
    879874, 875485, 871119, 866774, 862451, 858149, 853869, 849611,
    845373, 841157, 836962, 832787, 828634, 824501, 820389, 816297,
    812226, 808175, 804144, 800133, 796143, 792172, 788221, 784290,
    780378, 776486, 772613, 768760, 764925, 761110, 757314, 753537,
    749779, 746039, 742318, 738616, 734932, 731267, 727620, 723991,
    720380, 716787, 713212, 709655, 706115, 702593, 699089, 695602,
    692133, 688681, 685246, 681829, 678428, 675044, 671677, 668327,
    664994, 661678, 658377, 655094, 651826, 648575, 645341, 642122,
    638919, 635733, 632562, 629407, 626268, 623144, 620036, 616944,
    613867, 610805, 607759, 604728, 601712, 598711, 595724, 592753,
    589797, 586855, 583928, 581016, 578118, 575235, 572366, 569511,
    566671, 563844, 561032, 558234, 555450, 552680, 549923, 547180,
    544451, 541736, 539034, 536345, 533670, 531009, 528360, 525725,
    523103, 520494, 517898, 515315, 512745, 510187, 507643, 505111,
    502592, 500085, 497591, 495109, 492640, 490183, 487738, 485305,
    482885, 480476, 478080, 475696, 473323, 470962, 468613, 466276,
    463951, 461637, 459334, 457043, 454764, 452496, 450239, 447993,
    445759, 443536, 441324, 439122, 436932, 434753, 432585, 430427,
    428280, 426144, 424019, 421904, 419800, 417706, 415623, 413550,
    411487, 409435, 407393, 405361, 403339, 401328, 399326, 397334,
    395353, 393381, 391419, 389467, 387524, 385591, 383668, 381755,
    379851, 377956, 376071, 374195, 372329, 370472, 368624, 366786,
    364957, 363136, 361325, 359523, 357730, 355946, 354170, 352404,
    350646, 348898, 347157, 345426, 343703, 341989, 340283, 338586,
    336897, 335217, 333545, 331882, 330226, 328579, 326941, 325310,
    323687, 322073, 320467, 318868, 317278, 315696, 314121, 312554,
    310995, 309444, 307901, 306365, 304837, 303317, 301804, 300299,
    298801, 297311, 295828, 294353, 292884, 291424, 289970, 288524,
    287085, 285653, 284228, 282811, 281400, 279997, 278600, 277211,
    275828, 274453, 273084, 271722, 270366, 269018, 267676, 266341,
    265013, 263691, 262376, 261067, 259765, 258470, 257181, 255898,
    254622, 253352, 252088, 250831, 249580, 248335, 247096, 245864,
    244638, 243418, 242204, 240996, 239794, 238598, 237408, 236223,
    235045, 233873, 232707, 231546, 230391, 229242, 228099, 226961,
    225829, 224703, 223582, 222467, 221357, 220253, 219155, 218062,
    216974, 215892, 214815, 213744, 212678, 211617, 210562, 209511,
    208466, 207427, 206392, 205363, 204339, 203319, 202305, 201296,
    200292, 199293, 198299, 197310, 196326, 195347, 194373, 193403,
    192439, 191479, 190524, 189574, 188628, 187687, 186751, 185820,
    184893, 183971, 183053, 182140, 181232, 180328, 179429, 178534,
    177643, 176757, 175876, 174999, 174126, 173257, 172393, 171533,
    170678, 169827, 168980, 168137, 167298, 166464, 165634, 164808,
    163986, 163168, 162354, 161544, 160738, 159937, 159139, 158345,
    157556, 156770, 155988, 155210, 154436, 153666, 152899, 152137,
    151378, 150623, 149872, 149124, 148380, 147640, 146904, 146171,
    145442, 144717, 143995, 143277, 142562, 141851, 141144, 140440,
    139739, 139042, 138349, 137659, 136972, 136289, 135609, 134933,
    134260, 133590, 132924, 132261, 131601, 130945, 130292, 129642,
    128996, 128352, 127712, 127075, 126441, 125811, 125183, 124559,
    123938, 123319, 122704, 122092, 121483, 120878, 120275, 119675,
    119078, 118484, 117893, 117305, 116720, 116138, 115559, 114982,
    114409, 113838, 113270, 112706, 112143, 111584, 111028, 110474,
    109923, 109375, 108829, 108286, 107746, 107209, 106674, 106142,
    105613, 105086, 104562, 104040, 103521, 103005, 102491, 101980,
    101472, 100965, 100462, 99961, 99462, 98966, 98473, 97981,
    97493, 97007, 96523, 96041, 95562, 95086, 94611, 94140,
    93670, 93203, 92738, 92275, 91815, 91357, 90902, 90448,
    89997, 89548, 89102, 88657, 88215, 87775, 87337, 86902,
    86468, 86037, 85608, 85181, 84756, 84333, 83913, 83494,
    83078, 82664, 82251, 81841, 81433, 81027, 80623, 80220,
    79820, 79422, 79026, 78632, 78240, 77850, 77461, 77075,
    76691, 76308, 75927, 75549, 75172, 74797, 74424, 74053,
    73683, 73316, 72950, 72586, 72224, 71864, 71506 >>

exp_curve(score) == PD_CURVE[score + 41]

\* 0.1 percent in units of 10^-6 percent
PD_FLOOR == 100000

\* pd_1y without the floor of 0.1
pd_1y_raw_unfloored(score) == exp_curve(score)

\* the unrounded pd_1y of a score given in tenths of a point
pd_1y_raw(score) == Max(PD_FLOOR, exp_curve(score))

\* calculate_pd deriving pd_3y from the rounded pd_1y
calculate_pd_from_rounded(score) ==
    LET pd_1y == RoundDiv(pd_1y_raw(score), 10000)
    IN  <<pd_1y, RoundDiv(pd_1y * 23, 10)>>

calculate_pd(score) ==
    LET pd_1y == pd_1y_raw(score)
        pd_3y == pd_1y * 23      \* units of 10^-7 percent
    IN  <<RoundDiv(pd_1y, 10000), RoundDiv(pd_3y, 100000)>>

----------------------------------------------------------------------------
(* The rating pipeline of the "Generate SACRM Rating" button,              *)
(* src/app.py:335-362                                                      *)

\* the keys of company_data the pipeline reads
REQUIRED_FIELDS ==
    {"country", "ebitda_usd", "total_debt_usd", "cash_usd",
     "operating_cashflow_usd", "interest_expense_usd", "fx_debt_percentage",
     "has_bank_restructuring", "payment_delays_days", "mobile_money_share",
     "audited_financials"}

\* every denominator the engine divides by, at scale 1 or 5 as above
denominators(data) ==
    LET r == fss_ratios(data)
    IN  {r.debt_to_ebitda.den, r.interest_coverage.den, r.ocf_to_debt.den,
         r.liquidity.den, sss_ratio(data).den}

\* the pipeline raises: KeyError on a missing key, AttributeError on
\* .lower() of a non-text cell, ZeroDivisionError on a zero denominator
engine_raises(data) ==
    \/ ~(REQUIRED_FIELDS \subseteq DOMAIN data)
    \/ data.has_bank_restructuring = NOT_TEXT
    \/ data.audited_financials = NOT_TEXT
    \/ 0 \in denominators(data)

\* lines 336-345: the five sub-scores, the composite, the grade and the PDs
rating_pipeline(data) ==
    LET crs == calculate_crs(data.country)
        fss == calculate_fss(data)
        ocbs == calculate_ocbs(data)
        brs == calculate_brs(data)
        sss == calculate_sss(data, fss)
        composite == calculate_composite(crs, fss, ocbs, brs, sss)
        rating == get_rating_grade(composite)
        pd == calculate_pd(composite)
    IN  [crs |-> crs, fss |-> fss, ocbs |-> ocbs, brs |-> brs, sss |-> sss,
         composite |-> composite, rating |-> rating,
         pd_1y |-> pd[1], pd_3y |-> pd[2]]

\* lines 348-362: the dict stored in st.session_state.results; the scores
\* are rounded to one decimal (sss in tenths), the timestamp is left out
stored_result(data) ==
    LET r == rating_pipeline(data)
    IN  [company_data |-> data,
         scores |-> [crs |-> r.crs, fss |-> r.fss, ocbs |-> r.ocbs,
                     brs |-> r.brs, sss |-> RoundDiv(r.sss, SSS_UNIT \div 10)],
         composite |-> r.composite, rating |-> r.rating,
         pd_1y |-> r.pd_1y, pd_3y |-> r.pd_3y]

----------------------------------------------------------------------------
(* Input space *)

yes == <<"y", "e", "s">>
no == <<"n", "o">>

\* texts of the two yes/no columns
Texts ==
    {yes, no, <<"Y", "e", "s">>, <<"Y", "E", "S">>, <<"y", "E", "s">>,
     <<"N", "o">>, <<"y">>, <<>>, <<" ", "y", "e", "s">>,
     <<"t", "r", "u", "e">>}

\* the first row of the template, src/app.py:558-573
ExampleCompany ==
    [company_name |-> "Example Company Ltd", country |-> "Kenya",
     sector |-> "Manufacturing", revenue_usd |-> 50000000,
     ebitda_usd |-> 8000000, total_debt_usd |-> 25000000,
     cash_usd |-> 5000000, operating_cashflow_usd |-> 10000000,
     interest_expense_usd |-> 1500000, fx_debt_percentage |-> 45,
     has_bank_restructuring |-> no, payment_delays_days |-> 30,
     mobile_money_share |-> 75, audited_financials |-> yes]

\* the second row of the template
SampleCorp ==
    [company_name |-> "Sample Corp", country |-> "Ghana",
     sector |-> "Banking", revenue_usd |-> 75000000,
     ebitda_usd |-> 15000000, total_debt_usd |-> 40000000,
     cash_usd |-> 8000000, operating_cashflow_usd |-> 12000000,
     interest_expense_usd |-> 2000000, fx_debt_percentage |-> 30,
     has_bank_restructuring |-> no, payment_delays_days |-> 20,
     mobile_money_share |-> 45, audited_financials |-> yes]

Countries ==
    DOMAIN COUNTRY_RISK \cup {"Atlantis", "kenya", "KENYA", "", "Kenya "}

FxValues == {0, 29, 30, 45, 60, 61, 100}

\* the financial amounts vary, everything else as in the example row
FinancialSlice ==
    {[ExampleCompany EXCEPT !.total_debt_usd = d, !.ebitda_usd = e,
                            !.cash_usd = c, !.operating_cashflow_usd = o,
                            !.interest_expense_usd = i,
                            !.fx_debt_percentage = fx] :
        d \in 0..MaxAmount, e \in 0..MaxAmount, c \in 0..MaxFlow,
        o \in 0..MaxFlow, i \in 0..MaxFlow, fx \in {0, 45, 100}}

\* the inputs of calculate_ocbs vary
BehaviourSlice ==
    {[ExampleCompany EXCEPT !.has_bank_restructuring = t,
                            !.payment_delays_days = d] :
        t \in Texts, d \in 0..MaxDelay}

\* the inputs of calculate_brs vary
AltDataSlice ==
    {[ExampleCompany EXCEPT !.mobile_money_share = m,
                            !.fx_debt_percentage = fx,
                            !.audited_financials = t] :
        m \in 0..100, fx \in FxValues, t \in Texts}

\* the FX share varies over its whole range
FxSlice == {[ExampleCompany EXCEPT !.fx_debt_percentage = fx] : fx \in 0..100}

CountrySlice == {[ExampleCompany EXCEPT !.country = c] : c \in Countries}

\* every field at one of its two extremes
CornerSlice ==
    {[ExampleCompany EXCEPT !.country = k, !.total_debt_usd = d,
                            !.ebitda_usd = e, !.cash_usd = c,
                            !.operating_cashflow_usd = o,
                            !.interest_expense_usd = i,
                            !.fx_debt_percentage = fx,
                            !.has_bank_restructuring = r,
                            !.payment_delays_days = p,
                            !.mobile_money_share = m,
                            !.audited_financials = a] :
        k \in {"Egypt", "Mauritius"}, d \in {0, MaxAmount},
        e \in {0, MaxAmount}, c \in {0, MaxFlow}, o \in {0, MaxFlow},
        i \in {0, MaxFlow}, fx \in {0, 100}, r \in {yes, no},
        p \in {0, MaxDelay}, m \in {0, 100}, a \in {yes, no}}

\* the valid profiles the engine is called on
ProfileDomain ==
    FinancialSlice \cup BehaviourSlice \cup AltDataSlice \cup FxSlice
        \cup CountrySlice \cup CornerSlice \cup {SampleCorp}

\* the profile whose other sub-scores are lowest, and the one where they
\* are highest
WorstCompany ==
    [ExampleCompany EXCEPT !.country = "Egypt", !.fx_debt_percentage = 100,
                           !.has_bank_restructuring = yes,
                           !.payment_delays_days = 91,
                           !.mobile_money_share = 0,
                           !.audited_financials = no]

BestCompany ==
    [ExampleCompany EXCEPT !.country = "Mauritius", !.fx_debt_percentage = 0,
                           !.payment_delays_days = 0,
                           !.mobile_money_share = 100]

\* any numbers as financial amounts: negative, zero and positive
NumericDomain ==
    {[p EXCEPT !.total_debt_usd = d, !.ebitda_usd = e, !.cash_usd = c,
               !.operating_cashflow_usd = o, !.interest_expense_usd = i] :
        p \in {WorstCompany, BestCompany},
        d \in (-MaxNegative)..MaxAmount, e \in (-MaxNegative)..MaxAmount,
        c \in (-MaxNegative)..MaxFlow, o \in (-MaxNegative)..MaxFlow,
        i \in (-MaxNegative)..MaxFlow}

\* composite scores, in tenths: below 0, 0.0 .. 100.0, and above 100
ScoreDomain == (-MaxBelow)..(1000 + MaxAbove)

----------------------------------------------------------------------------
(* State of the page before any interaction, src/app.py:258-260, 307 *)

NoFile == [kind |-> "none"]
NoResult == <<>>
NoCall == <<>>

PageInit ==
    /\ country_risk = COUNTRY_RISK
    /\ sector_risk = SECTOR_RISK
    /\ uploaded_file = NoFile
    /\ selected_company = ""
    /\ results = NoResult
    /\ error_shown = FALSE
    /\ last_event = "start"
    /\ requests = 0

page_vars == <<country_risk, sector_risk, uploaded_file, selected_company,
               results, error_shown, last_event, requests>>

----------------------------------------------------------------------------
(* Direct calls of the engine on one profile *)

\* what a caller of lines 336-345 observes
run_pipeline(data) ==
    IF engine_raises(data) THEN [raised |-> TRUE]
    ELSE [raised |-> FALSE, out |-> rating_pipeline(data)]

CallPipeline ==
    /\ ret = NoCall
    /\ ret' = run_pipeline(arg)
    /\ UNCHANGED <<arg, page_vars>>

InitEngine == PageInit /\ arg \in ProfileDomain /\ ret = NoCall
NextEngine == CallPipeline
SpecEngine == InitEngine /\ [][NextEngine]_vars

\* the same call on a profile whose amounts are any numbers
InitNumeric == PageInit /\ arg \in NumericDomain /\ ret = NoCall
SpecNumeric == InitNumeric /\ [][NextEngine]_vars

----------------------------------------------------------------------------
(* Direct calls of the classifier and the PD estimator on one score *)

CallGrade ==
    /\ ret = NoCall
    /\ ret' = [fn |-> "get_rating_grade", grade |-> get_rating_grade(arg)]
    /\ UNCHANGED <<arg, page_vars>>

CallPd ==
    /\ ret = NoCall
    /\ ret' = [fn |-> "calculate_pd", pd_1y |-> calculate_pd(arg)[1],
               pd_3y |-> calculate_pd(arg)[2]]
    /\ UNCHANGED <<arg, page_vars>>

InitScore == PageInit /\ arg \in ScoreDomain /\ ret = NoCall
NextScore == CallGrade \/ CallPd
SpecScore == InitScore /\ [][NextScore]_vars

----------------------------------------------------------------------------
(* The "Upload & Rate" tab, src/app.py:303-369.  Every interaction reruns  *)
(* the script; st.session_state.results and the widgets keep their values. *)

Columns == DOMAIN ExampleCompany

\* the second template row restated: unknown country, no debt, restructured
SampleCorpRestated ==
    [SampleCorp EXCEPT !.country = "Atlantis", !.total_debt_usd = 0,
                       !.has_bank_restructuring = <<"Y", "e", "s">>,
                       !.payment_delays_days = 95]

\* a second row named "Example Company Ltd", its audited_financials cell
\* empty
BlankCell == [ExampleCompany EXCEPT !.audited_financials = NOT_TEXT]

FileRows == {ExampleCompany, BlankCell, SampleCorpRestated}

Unreadable == [kind |-> "unreadable"]

\* pd.read_csv of a file with the columns cols and the rows rows
Frame(cols, rows) ==
    [kind |-> "frame", columns |-> cols,
     rows |-> [n \in DOMAIN rows |-> [c \in cols |-> rows[n][c]]]]

\* the columns a file may lack: the key column, columns the engine reads
\* and one it does not read
DroppableColumns == {"company_name", "country", "sector"}

Files ==
    {Unreadable} \cup
    {Frame(Columns \ dropped, rows) :
        dropped \in {d \in SUBSET DroppableColumns :
                        Cardinality(d) <= MaxDropped},
        rows \in UNION {[1..n -> FileRows] : n \in 0..MaxRows}}

\* df['company_name'].tolist()
company_names(df) == [n \in DOMAIN df.rows |-> df.rows[n].company_name]

\* lines 316-327 run without raising, so that the button is rendered
preview_ok(file) ==
    file.kind = "frame" /\ "company_name" \in file.columns

\* df[df['company_name'] == selected_company]: the indices of the matches
matching_rows(df, selected) ==
    {n \in DOMAIN df.rows : df.rows[n].company_name = selected}

\* .iloc[0].to_dict(): the first matching row
first_match(df, selected) ==
    df.rows[CHOOSE n \in matching_rows(df, selected) :
                \A m \in matching_rows(df, selected) : n <= m]

\* lines 333-345 raise: IndexError when no row matches, or the engine raises
generate_raises(df, selected) ==
    \/ matching_rows(df, selected) = {}
    \/ engine_raises(first_match(df, selected))

\* on_generate storing the record as soon as the row is read, before the
\* scores are computed
on_generate_partial(df, selected, old_results) ==
    IF matching_rows(df, selected) = {} THEN old_results
    ELSE IF engine_raises(first_match(df, selected))
         THEN [company_data |-> first_match(df, selected)]
         ELSE stored_result(first_match(df, selected))

\* the value of st.session_state.results after the button's run, lines
\* 331-362 with the except clause of 367-369
on_generate(df, selected, old_results) ==
    IF generate_raises(df, selected) THEN old_results
    ELSE stored_result(first_match(df, selected))

\* the selectbox after a rerun with new options: its first option
default_selection(file) ==
    IF preview_ok(file) /\ Len(file.rows) > 0 THEN company_names(file)[1]
    ELSE ""

UploadFile(file) ==
    /\ file # uploaded_file
    /\ uploaded_file' = file
    /\ selected_company' = default_selection(file)
    /\ error_shown' = ~preview_ok(file)
    /\ last_event' = "upload"
    /\ UNCHANGED <<country_risk, sector_risk, results, requests, arg, ret>>

RemoveFile ==
    /\ uploaded_file # NoFile
    /\ uploaded_file' = NoFile
    /\ selected_company' = ""
    /\ error_shown' = FALSE
    /\ last_event' = "remove"
    /\ UNCHANGED <<country_risk, sector_risk, results, requests, arg, ret>>

SelectCompany(name) ==
    /\ preview_ok(uploaded_file)
    /\ \E n \in DOMAIN uploaded_file.rows : company_names(uploaded_file)[n] = name
    /\ name # selected_company
    /\ selected_company' = name
    /\ error_shown' = FALSE
    /\ last_event' = "select"
    /\ UNCHANGED <<country_risk, sector_risk, uploaded_file, results,
                   requests, arg, ret>>

\* ClickGenerate with calculate_crs using COUNTRY_RISK.setdefault(country, 70)
ClickGenerate_setdefault ==
    LET df == uploaded_file
        hit == matching_rows(df, selected_company) # {}
                   /\ "country" \in df.columns
        country == first_match(df, selected_company).country
    IN  /\ preview_ok(uploaded_file)
        /\ requests < MaxRequests
        /\ requests' = requests + 1
        /\ results' = on_generate(uploaded_file, selected_company, results)
        /\ error_shown' = generate_raises(uploaded_file, selected_company)
        /\ last_event' = IF generate_raises(uploaded_file, selected_company)
                         THEN "generate_failed" ELSE "generate"
        /\ country_risk' =
               IF hit
               THEN [c \in DOMAIN country_risk \cup {country} |->
                        IF c \in DOMAIN country_risk THEN country_risk[c]
                        ELSE 70]
               ELSE country_risk
        /\ UNCHANGED <<sector_risk, uploaded_file, selected_company, arg, ret>>

ClickGenerate ==
    /\ preview_ok(uploaded_file)
    /\ requests < MaxRequests
    /\ requests' = requests + 1
    /\ results' = on_generate(uploaded_file, selected_company, results)
    /\ error_shown' = generate_raises(uploaded_file, selected_company)
    /\ last_event' = IF generate_raises(uploaded_file, selected_company)
                     THEN "generate_failed" ELSE "generate"
    /\ UNCHANGED <<country_risk, sector_risk, uploaded_file,
                   selected_company, arg, ret>>

Init == PageInit /\ arg = NoCall /\ ret = NoCall

Next ==
    \/ \E file \in Files : UploadFile(file)
    \/ RemoveFile
    \/ \E name \in {r.company_name : r \in FileRows} : SelectCompany(name)
    \/ ClickGenerate

Spec == Init /\ [][Next]_vars

----------------------------------------------------------------------------
(* Properties *)

\* a direct call of the pipeline has returned normally
Returned == ret # NoCall /\ ~ret.raised

\* C1: for every valid profile the sovereign, financier-behaviour, alt-data
\* and stress scores lie in [0,100] (stress computed from the financial
\* strength of the same profile), and the financial strength is at most 100.
C1_SubScoreRanges ==
    Returned =>
        /\ ret.out.crs \in 0..100
        /\ ret.out.ocbs \in 0..100
        /\ ret.out.brs \in 0..100
        /\ ret.out.sss >= 0 /\ ret.out.sss <= 100 * SSS_UNIT
        /\ ret.out.fss <= 100
        /\ ret.out.sss = calculate_sss(arg, calculate_fss(arg))

\* a profile reaching the cap of the financial strength, and the highest
\* stress score that goes with it (100*0.85 + 5)
C1_Witness ==
    Returned /\ ret.out.fss = 100 /\ ret.out.sss = 90 * SSS_UNIT

\* C2: the composite is 0.30*crs + 0.25*fss + 0.20*ocbs + 0.15*brs + 0.10*sss
\* rounded to one decimal (the one-decimal value nearest to the weighted sum,
\* either neighbour at an exact tie), nothing else is applied, the weights
\* sum to 1.00, and the pipeline combines the five sub-scores of one profile,
\* the stress score being computed from that profile's financial strength.
C2_WeightedSum ==
    LET o == ret.out
        \* the weighted sum in units of 10^-7 point
        sum == 3000000 * o.crs + 2500000 * o.fss + 2000000 * o.ocbs
               + 1500000 * o.brs + 10 * o.sss
    IN  Returned =>
            /\ Abs(o.composite * 1000000 - sum) <= 500000
            /\ weights.crs + weights.fss + weights.ocbs + weights.brs
                   + weights.sss = 100
            /\ o.crs = calculate_crs(arg.country)
            /\ o.fss = calculate_fss(arg)
            /\ o.ocbs = calculate_ocbs(arg)
            /\ o.brs = calculate_brs(arg)
            /\ o.sss = calculate_sss(arg, o.fss)

\* a composite that was rounded up from a weighted sum off the one-decimal
\* grid, with the stress score away from both clamps
C2_Witness ==
    /\ Returned
    /\ ret.out.composite * 1000000 >
           3000000 * ret.out.crs + 2500000 * ret.out.fss
           + 2000000 * ret.out.ocbs + 1500000 * ret.out.brs + 10 * ret.out.sss
    /\ ret.out.sss % SSS_UNIT # 0
    /\ ret.out.crs # ret.out.fss

\* the grades, lowest first
GRADES ==
    <<"B-", "B", "B+", "BB-", "BB", "BB+", "BBB-", "BBB", "BBB+",
      "A-", "A", "A+", "AA", "AAA">>

\* the lower threshold of each grade above the lowest, in tenths
THRESHOLDS == <<450, 500, 550, 600, 620, 650, 680, 700, 720, 750, 800, 850, 900>>

GradeRank(g) == CHOOSE n \in DOMAIN GRADES : GRADES[n] = g

GradeReturned == ret # NoCall /\ ret.fn = "get_rating_grade"

\* C3: every score, negative and above 100 included, gets exactly one of the
\* 14 grades: the grade of the highest threshold it reaches, the threshold
\* value itself included, and B- when it reaches none.
C3_GradeTotal ==
    LET reached == {n \in DOMAIN THRESHOLDS : arg >= THRESHOLDS[n]}
    IN  GradeReturned =>
            /\ Cardinality({n \in DOMAIN GRADES : GRADES[n] = ret.grade}) = 1
            /\ GradeRank(ret.grade) = Cardinality(reached) + 1

\* a score exactly on a threshold
C3_Witness == GradeReturned /\ arg = 850 /\ ret.grade = "AA"

\* C4: the grade never falls when the score rises: every lower score has a
\* grade that is not higher.
C4_GradeMonotonic ==
    GradeReturned =>
        \A c1 \in ScoreDomain :
            c1 < arg => GradeRank(get_rating_grade(c1)) <= GradeRank(ret.grade)

\* a score whose grade is strictly above that of a lower score in the
\* domain, and strictly below that of a higher one
C4_Witness ==
    /\ GradeReturned /\ ret.grade = "A-"
    /\ \E c1 \in ScoreDomain : c1 < arg /\ get_rating_grade(c1) = "BBB+"

PdReturned == ret # NoCall /\ ret.fn = "calculate_pd"

\* C5 as stated: the returned pd_3y is the returned two-decimal pd_1y times
\* 2.3, rounded to two decimals (either neighbour when pd_1y * 2.3 ends in
\* an exact 5 at the third decimal).
C5_Original ==
    PdReturned => Abs(10 * ret.pd_3y - 23 * ret.pd_1y) <= 5

\* C5 amended: pd_3y is 2.3 times the unrounded 1-year value
\* max(0.1, 50*e^(-0.05*score)) rounded to two decimals, and the returned
\* pd_1y is that same unrounded value rounded to two decimals.
C5_Pd3yFromUnrounded ==
    PdReturned =>
        /\ Abs(ret.pd_3y * 100000 - 23 * pd_1y_raw(arg)) <= 50000
        /\ Abs(ret.pd_1y * 10000 - pd_1y_raw(arg)) <= 5000

\* score 80.0: pd_1y = 0.92 and pd_3y = 2.11, while 0.92 * 2.3 = 2.116
C5_Witness == PdReturned /\ arg = 800 /\ ret.pd_1y = 92 /\ ret.pd_3y = 211

\* C6 as stated: pd_1y is never below 0.1, and for two one-decimal scores
\* c1 < c2 in 0..100 whose unfloored value exceeds 0.1 the returned pd_1y of
\* c1 is strictly greater than that of c2.
C6_Original ==
    PdReturned =>
        /\ ret.pd_1y >= 10
        /\ \A c1 \in 0..1000 :
               (arg \in 0..1000 /\ c1 < arg /\ exp_curve(c1) > PD_FLOOR
                    /\ exp_curve(arg) > PD_FLOOR)
               => calculate_pd(c1)[1] > ret.pd_1y

\* C6 amended: pd_1y is never below 0.1 and never rises with the score: for
\* c1 < c2 the returned pd_1y of c1 is at least that of c2; the unrounded
\* value 50*e^(-0.05*c) is strictly decreasing.
C6_PdNonIncreasing ==
    PdReturned =>
        /\ ret.pd_1y >= 10
        /\ \A c1 \in ScoreDomain :
               c1 < arg => /\ calculate_pd(c1)[1] >= ret.pd_1y
                           /\ exp_curve(c1) > exp_curve(arg)

\* scores 81.5 and 81.6 both return 0.85, above the floor
C6_Witness ==
    /\ PdReturned /\ arg = 816 /\ ret.pd_1y = 85
    /\ calculate_pd(815)[1] = 85 /\ exp_curve(816) > PD_FLOOR

\* C7: calculate_crs never fails; a country that is a key of the table gets
\* the table's score, every other string, a known name in another letter
\* case included, gets exactly 70; the result is an integer in [0,100].
C7_SovereignLookup ==
    ret # NoCall =>
        /\ ~ret.raised
        /\ ret.out.crs \in 0..100
        /\ ret.out.crs = IF arg.country \in DOMAIN COUNTRY_RISK
                         THEN COUNTRY_RISK[arg.country] ELSE 70
        /\ arg.country = "Kenya" => ret.out.crs = 78
        /\ arg.country = "Mauritius" => ret.out.crs = 88
        /\ arg.country \in {"Atlantis", "kenya", "KENYA", "", "Kenya "}
               => ret.out.crs = 70

\* a known name in another letter case
C7_Witness == Returned /\ arg.country = "kenya" /\ ret.out.crs = 70

\* C8: no division is by zero: each denominator of calculate_fss and
\* calculate_sss is at least 1 unit, so zero debt, zero EBITDA and zero
\* interest expense give scores, computed over the denominator 1.
C8_DivisionGuard ==
    LET r == fss_ratios(arg)
        zero_debt == arg.total_debt_usd = 0
        bare == zero_debt /\ arg.ebitda_usd = 0 /\ arg.interest_expense_usd = 0
    IN  ret # NoCall =>
            /\ ~ret.raised
            /\ r.debt_to_ebitda.den >= 1
            /\ r.interest_coverage.den >= 1
            /\ r.ocf_to_debt.den >= 1
            /\ r.liquidity.den >= 5
            /\ sss_ratio(arg).den >= 5
            /\ arg.ebitda_usd = 0 => r.debt_to_ebitda.den = 1
            /\ arg.interest_expense_usd = 0 => r.interest_coverage.den = 1
            /\ zero_debt => /\ r.ocf_to_debt.den = 1
                            /\ r.liquidity.den = 5
                            /\ sss_ratio(arg).den = 5
            \* 0/1 < 2, 0/1 <= 2, ocf/1 and cash/1 against their tiers
            /\ bare => ret.out.fss =
                   65 + (IF arg.operating_cashflow_usd >= 1 THEN 10 ELSE 0)
                      + (IF arg.cash_usd >= 2 THEN 10
                         ELSE IF arg.cash_usd = 1 THEN 3 ELSE 0)

\* zero debt, zero EBITDA and zero interest expense, with cash and cashflow
C8_Witness ==
    /\ Returned
    /\ arg.total_debt_usd = 0 /\ arg.ebitda_usd = 0
    /\ arg.interest_expense_usd = 0
    /\ arg.cash_usd = 1 /\ arg.operating_cashflow_usd = 1
    /\ ret.out.fss = 78

\* C9: the engine keeps no hidden state: the country-risk and sector-risk
\* tables are never modified, and after any sequence of requests the stored
\* rating equals what rating its profile again yields now: the same
\* sub-scores, composite, grade and PDs.
C9_Deterministic ==
    /\ country_risk = COUNTRY_RISK
    /\ sector_risk = SECTOR_RISK
    /\ results # NoResult => results = stored_result(results.company_data)

\* the example row rated as the last of several requests
C9_Witness ==
    /\ requests = MaxRequests
    /\ last_event = "generate"
    /\ results = stored_result(ExampleCompany)

\* the stored result is a complete record computed from its own profile
complete_record(r) ==
    /\ DOMAIN r = {"company_data", "scores", "composite", "rating",
                   "pd_1y", "pd_3y"}
    /\ REQUIRED_FIELDS \subseteq DOMAIN r.company_data
    /\ DOMAIN r.scores = {"crs", "fss", "ocbs", "brs", "sss"}
    /\ r = stored_result(r.company_data)

\* C10: the stored result is always empty or a complete record computed
\* from one profile; a failing request reports one error and leaves the
\* stored result exactly as it was, a successful one reports none.
C10_NoPartialRating ==
    /\ [](results = NoResult \/ complete_record(results))
    /\ [][ /\ last_event' = "generate_failed" =>
                  results' = results /\ error_shown'
           /\ last_event' = "generate" =>
                  results' # NoResult /\ ~error_shown' ]_vars

\* a failed request after a successful one: the earlier rating is kept
C10_Witness ==
    /\ last_event = "generate_failed"
    /\ error_shown
    /\ results = stored_result(ExampleCompany)
    /\ uploaded_file.kind = "frame"
    /\ ~("country" \in uploaded_file.columns)

\* C11: the reference scenario (the example row of the template) yields
\* sovereign 78, financial strength 83 made of the bonuses +5, +15, +10, +3
\* over the base 50, financier behaviour 85, alt-data 95, a stress score of
\* 61.0 to one decimal, composite 81.5 and grade "A+".
C11_ReferenceScenario ==
    (Returned /\ arg = ExampleCompany) =>
        /\ ret.out.crs = 78
        /\ fss_bonuses(arg) = [debt_to_ebitda |-> 5, interest_coverage |-> 15,
                               ocf_to_debt |-> 10, liquidity |-> 3]
        /\ ret.out.fss = 83
        /\ ret.out.ocbs = 85
        /\ ret.out.brs = 95
        /\ 20 * Abs(ret.out.sss - 61 * SSS_UNIT) < SSS_UNIT
        /\ ret.out.composite = 815
        /\ ret.out.rating = "A+"

\* the pipeline has rated the reference scenario
C11_Witness ==
    /\ Returned
    /\ arg.company_name = "Example Company Ltd"
    /\ arg.total_debt_usd = 25000000 /\ arg.ebitda_usd = 8000000
    /\ arg.cash_usd = 5000000 /\ arg.operating_cashflow_usd = 10000000
    /\ arg.interest_expense_usd = 1500000
    /\ arg.country = "Kenya" /\ arg.fx_debt_percentage = 45
    /\ arg.has_bank_restructuring = no /\ arg.payment_delays_days = 30
    /\ arg.mobile_money_share = 75 /\ arg.audited_financials = yes
    /\ ret.out.rating = "A+"

\* the texts that equal "yes" when letter case is ignored
YesIgnoringCase ==
    {<<a, b, c>> : a \in {"y", "Y"}, b \in {"e", "E"}, c \in {"s", "S"}}

\* C12: the financier-behaviour score is clamp[0,100] of 80, minus 15
\* exactly when has_bank_restructuring is "yes" in any letter case (every
\* other text counts as no), plus one payment-delay adjustment: +10 below
\* 30 days, +5 from 30 to below 60, -15 above 90, -10 above 60 up to 90, and
\* nothing at exactly 60 days.
C12_FinancierBehaviour ==
    Returned =>
        LET d == arg.payment_delays_days
            restructuring ==
                IF arg.has_bank_restructuring \in YesIgnoringCase
                THEN 15 ELSE 0
            adjustment ==
                CASE d < 30 -> 10
                  [] d >= 30 /\ d < 60 -> 5
                  [] d = 60 -> 0
                  [] d > 60 /\ d <= 90 -> -10
                  [] d > 90 -> -15
        IN  ret.out.ocbs = Max(0, Min(100, 80 - restructuring + adjustment))

\* a restructuring written in capitals, with a delay of exactly 60 days
C12_Witness ==
    /\ Returned
    /\ arg.has_bank_restructuring = <<"Y", "E", "S">>
    /\ arg.payment_delays_days = 60
    /\ ret.out.ocbs = 65

\* C13: for any numbers as amounts, negative and zero included, each ratio
\* of calculate_fss adds one bonus out of 0/5/10/15 (debt/EBITDA, interest
\* coverage) or 0/3/6/10 (OCF/debt, liquidity), the sum with the base 50 is
\* at most 100, so min(score, 100) returns the sum unchanged and the result
\* lies in [50,100]; the composite stays in [0,100].
C13_FssRange ==
    Returned =>
        LET b == fss_bonuses(arg)
        IN  /\ b.debt_to_ebitda \in {0, 5, 10, 15}
            /\ b.interest_coverage \in {0, 5, 10, 15}
            /\ b.ocf_to_debt \in {0, 3, 6, 10}
            /\ b.liquidity \in {0, 3, 6, 10}
            /\ fss_score(arg) <= 100
            /\ ret.out.fss = 50 + b.debt_to_ebitda + b.interest_coverage
                                + b.ocf_to_debt + b.liquidity
            /\ ret.out.fss \in 50..100
            /\ ret.out.composite \in 0..1000

\* the largest sum, 100, reached by a profile with a negative debt and a
\* negative interest expense
C13_Witness ==
    /\ Returned
    /\ arg.total_debt_usd < 0
    /\ arg.interest_expense_usd < 0
    /\ fss_score(arg) = 100
    /\ ret.out.fss = 100

====
